---- MODULE Spec2Model ----
(***************************************************************************)
(* Match orchestration engine of chess-bench: GameOrchestrator (start,     *)
(* stop, run_once, the poll loop, _process_pending_matches, _run_schedule, *)
(* _play_game), the two move providers' lifecycle, the rating update and   *)
(* the persisted tables MatchSchedule, Game, Move and Model.               *)
(*                                                                         *)
(* Coroutines interleave only at awaits.  A process is suspended at an     *)
(* await named by pc[p]; one action is the completion of that await (its   *)
(* store or provider effect) followed by the code that runs up to the next *)
(* await.  The store and the transcript sink do not fail; is_active of a   *)
(* model is not toggled while the orchestrator runs.                       *)
(***************************************************************************)
EXTENDS Integers, Sequences, FiniteSets, TLC

\* ------------------------------------------------------------------ bounds
MaxCalls == 3
MaxSchedules == 2
MaxGameLen == 2
MaxScripted == 2
MaxPasses == 2
MaxCallers == 2
MaxWords == 2
MaxInvocations == 2

\* ------------------------------------------------------- program constants
max_half_moves == 400
STOCKFISH_RATING == 3200
K_FACTOR == 32
DEFAULT_RATING == 1200

\* ------------------------------------------------------------ value spaces
Calls == 1..MaxCalls
Models == {1, 2}
\* Model 1 is active, model 2 is inactive (Model.is_active).
is_active(m) == m = 1

PENDING == "pending"
RUNNING == "running"
COMPLETED == "completed"
FAILED == "failed"
MatchStatus == {PENDING, RUNNING, COMPLETED, FAILED}

WIN == "win"
LOSS == "loss"
DRAW == "draw"
NoResult == "none"
GameResult == {WIN, LOSS, DRAW}

WHITE == "white"
BLACK == "black"

\* ------------------------------------------------------------------ ratings
\* Ratings are fixed-point: RatingUnit units per rating point.  Scores and
\* expected scores are in millionths.
RatingUnit == 100 * 100
ScoreOne == 1000 * 1000

RECURSIVE IntPow10(_)
IntPow10(q) == IF q <= 0 THEN 1 ELSE 10 * IntPow10(q - 1)

\* 1000 * 10^(k/4) for k in 0..3, the fractional part of the exponent being
\* rounded down to a quarter.
QuarterPow10(k) == CASE k = 0 -> 1000 [] k = 1 -> 1778 [] k = 2 -> 3162 [] OTHER -> 5623

\* 1000 * 10 ** (d / 400.0) for a rating difference d >= 0 (in rating units).
Pow10Milli(d) ==
    LET q == d \div (400 * RatingUnit)
        k == (d % (400 * RatingUnit)) \div (100 * RatingUnit)
    IN  IntPow10(q) * QuarterPow10(k)

expected_score(player_rating, opponent_rating) ==
    LET d == opponent_rating - player_rating
    IN  IF d >= 0
        THEN IF d >= 6 * 400 * RatingUnit THEN 0
             ELSE (1000 * ScoreOne) \div (1000 + Pow10Milli(d))
        ELSE IF -d >= 6 * 400 * RatingUnit THEN ScoreOne
             ELSE ScoreOne - (1000 * ScoreOne) \div (1000 + Pow10Milli(-d))

\* Mutant: the scores of DRAW and LOSS are exchanged.
result_to_score_swapped(result) ==
    CASE result = WIN -> ScoreOne
      [] result = DRAW -> 0
      [] result = LOSS -> ScoreOne \div 2
      [] OTHER -> ScoreOne \div 2

result_to_score(result) ==
    CASE result = WIN -> ScoreOne
      [] result = DRAW -> ScoreOne \div 2
      [] result = LOSS -> 0
      [] OTHER -> ScoreOne \div 2

\* Mutant: the opponent is always taken to have the default rating.
adjust_rating_default(current_rating, result, opponent_rating) ==
    current_rating
      + (K_FACTOR * (result_to_score(result)
                       - expected_score(current_rating, STOCKFISH_RATING * RatingUnit)))
          \div (ScoreOne \div RatingUnit)

adjust_rating(current_rating, result, opponent_rating) ==
    current_rating
      + (K_FACTOR * (result_to_score(result)
                       - expected_score(current_rating, opponent_rating)))
          \div (ScoreOne \div RatingUnit)

\* ----------------------------------------------------------- move extractor
\* A text is a sequence of one-character strings.  The pattern of
\* _extract_san is matched as re.finditer matches it: leftmost, the
\* alternatives in their order, optional parts taken before they are skipped,
\* case ignored, matches not overlapping.
NoSan == <<>>
At(s, i) == IF i >= 1 /\ i <= Len(s) THEN s[i] ELSE ""

CastleChars == {"O", "o", "0"}
PieceChars == {"K", "Q", "R", "B", "N", "k", "q", "r", "b", "n"}
FileChars == {"a", "b", "c", "d", "e", "f", "g", "h",
              "A", "B", "C", "D", "E", "F", "G", "H"}
RankChars == {"1", "2", "3", "4", "5", "6", "7", "8"}
PromoChars == {"Q", "R", "B", "N", "q", "r", "b", "n"}
CheckChars == {"+", "#"}
SpaceChars == {" ", "\n", "\t"}

\* Each Match* gives the position after the match that starts at j, or 0.
\* [O0]-[O0]-[O0]
MatchLongCastle(s, j) ==
    IF /\ At(s, j) \in CastleChars /\ At(s, j + 1) = "-"
       /\ At(s, j + 2) \in CastleChars /\ At(s, j + 3) = "-"
       /\ At(s, j + 4) \in CastleChars
    THEN j + 5 ELSE 0

\* [O0]-[O0]
MatchShortCastle(s, j) ==
    IF At(s, j) \in CastleChars /\ At(s, j + 1) = "-" /\ At(s, j + 2) \in CastleChars
    THEN j + 3 ELSE 0

\* One optional part at position q (0: the attempt has failed already).
Optional(s, q, take, chars) ==
    IF q = 0 THEN 0
    ELSE IF ~take THEN q
    ELSE IF At(s, q) \in chars THEN q + 1 ELSE 0

\* [a-h][1-8](?:=[QRBN])?[+#]? at q.
MatchSquare(s, q) ==
    IF q = 0 \/ At(s, q) \notin FileChars \/ At(s, q + 1) \notin RankChars THEN 0
    ELSE LET r == IF At(s, q + 2) = "=" /\ At(s, q + 3) \in PromoChars
                  THEN q + 4 ELSE q + 2
         IN  IF At(s, r) \in CheckChars THEN r + 1 ELSE r

\* [KQRBN]?[a-h]?[1-8]?x?[a-h][1-8](?:=[QRBN])?[+#]? with the optional parts
\* chosen by the bits of n: attempt 0 takes all four, attempt 15 none.
MatchMoveAttempt(s, j, n) ==
    LET take(b) == (n \div b) % 2 = 0
        q1 == Optional(s, j, take(8), PieceChars)
        q2 == Optional(s, q1, take(4), FileChars)
        q3 == Optional(s, q2, take(2), RankChars)
        q4 == Optional(s, q3, take(1), {"x", "X"})
    IN  MatchSquare(s, q4)

MatchMove(s, j) ==
    LET ok == {n \in 0..15 : MatchMoveAttempt(s, j, n) # 0}
    IN  IF ok = {} THEN 0
        ELSE MatchMoveAttempt(s, j, CHOOSE n \in ok : \A m \in ok : n <= m)

\* The capture group at j: the first alternative that matches.
MatchGroup(s, j) ==
    IF MatchLongCastle(s, j) # 0 THEN MatchLongCastle(s, j)
    ELSE IF MatchShortCastle(s, j) # 0 THEN MatchShortCastle(s, j)
    ELSE IF MatchMove(s, j) # 0 THEN MatchMove(s, j)
    ELSE MatchSquare(s, j)

\* MOVE: at i, case ignored.
HasPrefix(s, i) ==
    /\ At(s, i) \in {"M", "m"} /\ At(s, i + 1) \in {"O", "o"}
    /\ At(s, i + 2) \in {"V", "v"} /\ At(s, i + 3) \in {"E", "e"}
    /\ At(s, i + 4) = ":"

RECURSIVE SpaceRun(_, _)
SpaceRun(s, i) == IF At(s, i) \in SpaceChars THEN 1 + SpaceRun(s, i + 1) ELSE 0

\* The whole pattern at i: <<start of the group, position after it>>, or
\* <<0, 0>>.  (?:MOVE:\s*)? is tried with the prefix and the longest run of
\* white space first.
MatchAt(s, i) ==
    LET w == SpaceRun(s, i + 5)
        ok == {u \in 0..w : MatchGroup(s, i + 5 + u) # 0}
        u == CHOOSE v \in ok : \A x \in ok : x <= v
    IN  IF HasPrefix(s, i) /\ ok # {}
        THEN <<i + 5 + u, MatchGroup(s, i + 5 + u)>>
        ELSE IF MatchGroup(s, i) # 0 THEN <<i, MatchGroup(s, i)>>
        ELSE <<0, 0>>

\* str.replace("0", "O")
Replace0(t) == [i \in 1..Len(t) |-> IF t[i] = "0" THEN "O" ELSE t[i]]

\* The groups re.finditer yields from position i on, each with 0 replaced.
RECURSIVE FindGroups(_, _)
FindGroups(s, i) ==
    IF i > Len(s) THEN <<>>
    ELSE LET m == MatchAt(s, i)
         IN  IF m[1] = 0 THEN FindGroups(s, i + 1)
             ELSE <<Replace0(SubSeq(s, m[1], m[2] - 1))>> \o FindGroups(s, m[2])

\* str.split(): the maximal runs without white space, from position i on.
RECURSIVE NonSpaceRun(_, _)
NonSpaceRun(s, i) ==
    IF i > Len(s) \/ s[i] \in SpaceChars THEN 0 ELSE 1 + NonSpaceRun(s, i + 1)

RECURSIVE Split(_, _)
Split(s, i) ==
    IF i > Len(s) THEN <<>>
    ELSE IF s[i] \in SpaceChars THEN Split(s, i + 1)
    ELSE LET n == NonSpaceRun(s, i)
         IN  <<SubSeq(s, i, i + n - 1)>> \o Split(s, i + n)

_extract_san(content, legal_moves) ==
    LET candidates == SelectSeq(FindGroups(content, 1), LAMBDA san : san \in legal_moves)
        tokens == SelectSeq([i \in 1..Len(Split(content, 1)) |-> Replace0(Split(content, 1)[i])],
                            LAMBDA token : token \in legal_moves)
    IN  IF candidates # <<>> THEN candidates[Len(candidates)]
        ELSE IF tokens # <<>> THEN tokens[1]
        ELSE NoSan

\* ------------------------------------------------------------------- board
\* A position is abstracted to the number of plies pushed and its outcome:
\* "*" while the game is not over (is_game_over(claim_draw=True) is false).
NotOver == "*"
WhiteWins == "1-0"
BlackWins == "0-1"
Drawn == "1/2-1/2"

\* Mutant: the side is read after the move is pushed.
turn_after_push(n) == IF n % 2 = 0 THEN BLACK ELSE WHITE

turn(n) == IF n % 2 = 0 THEN WHITE ELSE BLACK

\* Outcomes the position can have after the side `side` has made ply n: the
\* mover has won, or the game goes on; the moves the environment offers end
\* the game by ply h at the latest, there with a draw unless the mover won.
Outcomes(side, n, h) ==
    (IF n >= h THEN {Drawn} ELSE {NotOver})
      \cup (IF side = WHITE THEN {WhiteWins} ELSE {BlackWins})

\* Mutant: the result string is read as the engine's side would read it.
_map_result_flipped(result_string, model_is_white) ==
    IF result_string = WhiteWins THEN (IF model_is_white THEN LOSS ELSE WIN)
    ELSE IF result_string = BlackWins THEN (IF model_is_white THEN WIN ELSE LOSS)
    ELSE DRAW

\* Mutant: a game that is not over has no result.
_map_result_unfinished(result_string, model_is_white) ==
    IF result_string = WhiteWins THEN (IF model_is_white THEN WIN ELSE LOSS)
    ELSE IF result_string = BlackWins THEN (IF model_is_white THEN LOSS ELSE WIN)
    ELSE IF result_string = NotOver THEN NoResult
    ELSE DRAW

_map_result(result_string, model_is_white) ==
    IF result_string = WhiteWins THEN (IF model_is_white THEN WIN ELSE LOSS)
    ELSE IF result_string = BlackWins THEN (IF model_is_white THEN LOSS ELSE WIN)
    ELSE DRAW

\* ------------------------------------------------------------------- state
VARIABLES
    dry_run,       \* GameOrchestrator._dry_run; the providers are None iff set
    scripted,      \* GameOrchestrator._scripted_moves: the entries left
    horizon,       \* environment: the ply by which every game is over
    running,       \* GameOrchestrator._running
    task,          \* GameOrchestrator._task: 0 (None) or the task's process
    sfEngine,      \* StockfishEngine._engine: 0 (None) or the subprocess
    sfLive,        \* engine subprocesses launched and not quit
    orClient,      \* OpenRouterClient._client is not None
    schedules,     \* table MatchSchedule: id -> [model, status, game]
    games,         \* table Game with its Move rows: id -> record
    rating,        \* Model.rating
    adjustments,   \* history: rating adjustments committed per schedule id
    ncalls,        \* API calls made so far
    kind,          \* per process: what coroutine it is
    pc,            \* per process: the await it is suspended at
    cancelReq,     \* tasks with a cancellation requested and not delivered
    loc,           \* per process: local variables
    stale,         \* history: passes with a game in flight when a stop() that
                   \* shut the scheduler down returned
    pgn,           \* transcript files game_<id>.pgn written, by game id
    call,          \* per provider caller: its get_move / choose_move invocation
    or_lock,       \* OpenRouterClient._lock: 0 (free) or the caller holding it
    sf_lock,       \* StockfishEngine._lock: 0 (free) or the caller holding it
    or_requests,   \* chat-completion requests in flight, by caller
    sf_requests,   \* engine.play calls running in a worker thread
    arg,           \* the input of the function or call under study
    ret            \* its result

vars == <<dry_run, scripted, horizon, running, task, sfEngine, sfLive, orClient,
          schedules, games, rating, adjustments, ncalls, kind, pc, cancelReq,
          loc, stale, pgn, call, or_lock, sf_lock, or_requests, sf_requests,
          arg, ret>>

config == <<dry_run, horizon>>
orch == <<running, task>>
providers == <<sfEngine, sfLive, orClient>>
store == <<schedules, games, rating, adjustments>>
\* What the orchestrator's steps never touch: the providers' calls seen from
\* inside, and the input and result of a function studied alone.
aside == <<call, or_lock, sf_lock, or_requests, sf_requests, arg, ret>>
orchestrator == <<dry_run, scripted, horizon, running, task, sfEngine, sfLive,
                  orClient, schedules, games, rating, adjustments, ncalls, kind,
                  pc, cancelReq, loc, stale, pgn>>
calls == <<call, or_lock, sf_lock, or_requests, sf_requests>>

LocInit == [filter |-> {}, queue |-> <<>>, game |-> 0, n |-> 0, over |-> NotOver,
            pend |-> <<"none", 0>>, result |-> NoResult, rread |-> 0, eng |-> 0,
            awaited |-> 0]

\* scripted_moves as given to the constructor: entries 1..k in order.
ScriptedQueues == {[i \in 1..k |-> i] : k \in 0..MaxScripted}

\* The coroutines that call a provider: the poll task (1) and run_once passes.
Callers == 1..MaxCallers

\* No provider call is in progress and no function is under study.
CallIdle == [pc |-> "idle", fn |-> "none", k |-> 0, attempt |-> 0, out |-> "none",
             san |-> NoSan, reply |-> <<>>, legal |-> {}]

AsideIdle ==
    /\ call = [c \in Callers |-> CallIdle]
    /\ or_lock = 0
    /\ sf_lock = 0
    /\ or_requests = {}
    /\ sf_requests = {}
    /\ arg = "none"
    /\ ret = "none"

OrchInit(h) ==
    /\ dry_run \in BOOLEAN
    /\ scripted \in ScriptedQueues
    /\ horizon = h
    /\ running = FALSE
    /\ task = 0
    /\ sfEngine = 0
    /\ sfLive = {}
    /\ orClient = FALSE
    /\ schedules = <<>>
    /\ games = <<>>
    /\ rating = [m \in Models |-> DEFAULT_RATING * RatingUnit]
    /\ adjustments = <<>>
    /\ ncalls = 0
    /\ kind = [p \in Calls |-> "none"]
    /\ pc = [p \in Calls |-> "unused"]
    /\ cancelReq = {}
    /\ loc = [p \in Calls |-> LocInit]
    /\ stale = {}
    /\ pgn = {}

InitWith(h) == OrchInit(h) /\ AsideIdle

Init == InitWith(MaxGameLen)

\* ----------------------------------------------------------------- helpers
Live(p) == pc[p] \notin {"unused", "done"}
IsPass(p) == kind[p] \in {"run_once", "task"} /\ Live(p)
Runnable(p) == Live(p) /\ p \notin cancelReq
cur(l) == Head(l.queue)

\* The coroutine of process p ends: its frame is dropped.
finish(p) ==
    /\ pc' = [pc EXCEPT ![p] = "done"]
    /\ kind' = [kind EXCEPT ![p] = "none"]
    /\ loc' = [loc EXCEPT ![p] = LocInit]

goto(p, label, l) ==
    /\ pc' = [pc EXCEPT ![p] = label]
    /\ loc' = [loc EXCEPT ![p] = l]
    /\ kind' = kind

\* ------------------------------------------------- _process_pending_matches
\* Mutant: _run_loop without its while: the poll task ends with its first pass.
pass_end_returns(p, l) == finish(p)

\* The pass of p has no schedule left (line 95 falls through): run_once
\* returns; the poll task goes to asyncio.sleep (line 75).
pass_end(p, l) ==
    IF kind[p] = "task"
    THEN goto(p, "loop", LocInit)
    ELSE finish(p)

\* _run_schedule returned: the for loop of line 95 takes the next schedule.
next_schedule(p, l) ==
    LET rest == Tail(l.queue)
    IN  IF rest # <<>>
        THEN goto(p, "get_sched", [LocInit EXCEPT !.filter = l.filter, !.queue = rest])
        ELSE pass_end(p, l)

\* Mutant: the query without its order_by, the rows coming latest first.
selected_unordered(ids) ==
    LET rows == SelectSeq([i \in 1..Len(schedules) |-> i],
                          LAMBDA s : /\ schedules[s].status = PENDING
                                     /\ (ids # {} => schedules[s].model \in ids))
    IN  [i \in 1..Len(rows) |-> rows[Len(rows) + 1 - i]]

\* The query of lines 90-94: PENDING schedules, of the filter's models when the
\* filter is non-empty, by scheduled_for (the order of creation).
selected(ids) ==
    SelectSeq([i \in 1..Len(schedules) |-> i],
              LAMBDA s : /\ schedules[s].status = PENDING
                         /\ (ids # {} => schedules[s].model \in ids))

Select(p) ==
    /\ Runnable(p) /\ pc[p] = "select"
    /\ LET l == [loc[p] EXCEPT !.queue = selected(loc[p].filter)]
       IN  IF l.queue # <<>> THEN goto(p, "get_sched", l) ELSE pass_end(p, l)
    /\ UNCHANGED <<aside, config, scripted, pgn, orch, providers, store, ncalls, cancelReq, stale>>

\* ------------------------------------------------------------ _play_game
\* get_move is declared with four parameters (openrouter.py 52-58) and
\* _choose_model_move passes three (orchestrator.py 204).
get_move_params == 4
get_move_args == 3

\* Mutant: the cap is tested off by one.
loop_continues_late(l) == l.over = NotOver /\ l.n + 1 <= max_half_moves + 1

\* The while condition of line 154, with ply = n + 1.
loop_continues(l) == l.over = NotOver /\ l.n + 1 <= max_half_moves

\* Mutant: the exception is swallowed in the loop, which breaks as it does for
\* an engine without a move, and the game is finalized.
on_play_exception_swallowed(p, l) ==
    goto(p, "finish_commit", [l EXCEPT !.result = _map_result(l.over, TRUE)])

\* An exception leaves _play_game: the handler of lines 118-120 sets FAILED and
\* awaits the commit.
on_play_exception(p, l) == goto(p, "fail_commit", l)

\* Mutant: the entry taken is put back at the end of the list.
pop_restored(q) == IF q # <<>> THEN Append(Tail(q), Head(q)) ELSE q

\* Lines 224-226: self._scripted_moves.pop(0) when the list is not empty.
pop(q) == IF q # <<>> THEN Tail(q) ELSE q

\* The play loop from the position of l, up to its next await.
play_loop(p, l) ==
    IF ~loop_continues(l)
    THEN \* lines 174-187: the result is mapped, the Game updated, the transcript
         \* written (184), commit awaited
         /\ scripted' = scripted
         /\ pgn' = pgn \cup {l.game}
         /\ goto(p, "finish_commit", [l EXCEPT !.result = _map_result(l.over, TRUE)])
    ELSE \* _next_scripted_move pops the head entry, legal in this position or not
         \E legal \in (IF scripted # <<>> THEN BOOLEAN ELSE {FALSE}) :
            /\ scripted' = pop(scripted)
            /\ pgn' = pgn
            /\ IF legal
               THEN goto(p, "move_commit", [l EXCEPT !.pend = <<"scripted", Head(scripted)>>])
               ELSE IF dry_run
               THEN goto(p, "move_commit", [l EXCEPT !.pend = <<"fallback", 0>>])
               ELSE IF turn(l.n) = WHITE
               THEN IF get_move_args = get_move_params
                    THEN goto(p, "llm", l)
                    ELSE on_play_exception(p, l)
               ELSE IF sfEngine = 0
                    THEN on_play_exception(p, l)
                    ELSE goto(p, "engine", [l EXCEPT !.eng = sfEngine])

\* Lines 219-220: choose_move returned None for the move (the engine's
\* PlayResult has none); board.san(move) of line 220 pushes the move to look
\* for a check and raises for None, before the test of line 161 is reached.
no_engine_move(p, l) == on_play_exception(p, [l EXCEPT !.pend = <<"nomove", 0>>])

\* StockfishEngine.choose_move returns a move, or no move, or raises (the
\* engine died or was quit).
EngineReply(p) ==
    /\ Runnable(p) /\ pc[p] = "engine"
    /\ \E reply \in (IF loc[p].eng \in sfLive THEN {"move", "nomove", "raise"} ELSE {"raise"}) :
          IF reply = "move"
          THEN goto(p, "move_commit", [loc[p] EXCEPT !.pend = <<"engine", 0>>, !.eng = 0])
          ELSE IF reply = "nomove"
          THEN no_engine_move(p, [loc[p] EXCEPT !.eng = 0])
          ELSE on_play_exception(p, [loc[p] EXCEPT !.eng = 0])
    /\ UNCHANGED <<aside, config, scripted, pgn, orch, providers, store, ncalls, cancelReq, stale>>

\* Lines 163-172: the Move row is committed, then the loop goes on from the
\* position after the move.
MoveCommit(p) ==
    /\ Runnable(p) /\ pc[p] = "move_commit"
    /\ LET l == loc[p]
           g == l.game
           row == [ply |-> l.n + 1, side |-> turn(l.n), san |-> l.pend]
       IN  /\ games' = [games EXCEPT ![g].moves = Append(@, row)]
           /\ \E o \in Outcomes(turn(l.n), l.n + 1, horizon) :
                 play_loop(p, [l EXCEPT !.n = l.n + 1, !.over = o, !.pend = LocInit.pend])
    /\ UNCHANGED <<aside, config, orch, providers, schedules, rating, adjustments, ncalls,
                   cancelReq, stale>>

\* Mutant: _play_game returns without committing the Game's result.
FinishCommit_uncommitted(p) ==
    /\ Runnable(p) /\ pc[p] = "finish_commit"
    /\ games' = games
    /\ goto(p, "complete_commit", loc[p])
    /\ UNCHANGED <<aside, config, scripted, pgn, orch, providers, schedules, rating, adjustments,
                   ncalls, cancelReq, stale>>

\* Lines 176-188: completed_at, moves_count and result are committed; back in
\* _run_schedule (123-130) COMPLETED is set and its commit awaited.
FinishCommit(p) ==
    /\ Runnable(p) /\ pc[p] = "finish_commit"
    /\ LET l == loc[p]
       IN  /\ games' = [games EXCEPT ![l.game].result = l.result,
                                     ![l.game].completed = TRUE,
                                     ![l.game].moves_count = l.n]
           /\ goto(p, "complete_commit", l)
    /\ UNCHANGED <<aside, config, scripted, pgn, orch, providers, schedules, rating, adjustments,
                   ncalls, cancelReq, stale>>

\* ----------------------------------------------------------- _run_schedule
\* Mutant: the is_active test is dropped.
model_usable_any(m) == m \in Models

\* Line 106.
model_usable(m) == m \in Models /\ is_active(m)

\* Lines 100-114: the schedule is fetched, anything but PENDING is skipped; the
\* model is fetched (its row does not change here, so this fetch is taken with
\* the schedule's); inactive: FAILED is set and its commit awaited; active:
\* RUNNING, a Game and the link are set and flushed.
GetSchedule(p) ==
    /\ Runnable(p) /\ pc[p] = "get_sched"
    /\ IF schedules[cur(loc[p])].status # PENDING
       THEN next_schedule(p, loc[p])
       ELSE IF ~model_usable(schedules[cur(loc[p])].model)
       THEN goto(p, "inactive_commit", loc[p])
       ELSE goto(p, "claim", loc[p])
    /\ UNCHANGED <<aside, config, scripted, pgn, orch, providers, store, ncalls, cancelReq, stale>>

\* Lines 107-109.
InactiveCommit(p) ==
    /\ Runnable(p) /\ pc[p] = "inactive_commit"
    /\ schedules' = [schedules EXCEPT ![cur(loc[p])].status = FAILED]
    /\ next_schedule(p, loc[p])
    /\ UNCHANGED <<aside, config, scripted, pgn, orch, providers, games, rating, adjustments,
                   ncalls, cancelReq, stale>>

\* Lines 110-117: the Game row, RUNNING and the link are committed, and
\* _play_game starts from the initial position.
Claim(p) ==
    /\ Runnable(p) /\ pc[p] = "claim"
    /\ LET s == cur(loc[p])
           g == Len(games) + 1
       IN  /\ games' = Append(games, [model |-> schedules[s].model, sched |-> s,
                                      result |-> NoResult, completed |-> FALSE,
                                      moves_count |-> 0, moves |-> <<>>])
           /\ schedules' = [schedules EXCEPT ![s].status = RUNNING, ![s].game = g]
           /\ play_loop(p, [loc[p] EXCEPT !.game = g, !.n = 0, !.over = NotOver])
    /\ UNCHANGED <<aside, config, orch, providers, rating, adjustments, ncalls, cancelReq, stale>>

\* Mutant: the exception leaves _run_schedule and ends the pass.
after_fail_abort(p, l) == finish(p)

\* Lines 119-122: FAILED is committed and _run_schedule returns.
after_fail(p, l) == next_schedule(p, l)

FailCommit(p) ==
    /\ Runnable(p) /\ pc[p] = "fail_commit"
    /\ schedules' = [schedules EXCEPT ![cur(loc[p])].status = FAILED]
    /\ after_fail(p, loc[p])
    /\ UNCHANGED <<aside, config, scripted, pgn, orch, providers, games, rating, adjustments,
                   ncalls, cancelReq, stale>>

\* Line 131.
rating_due(result) == ~dry_run /\ result # NoResult

\* Lines 129-133: COMPLETED is committed; the rating is then read in a new
\* session unless this is a dry run.
CompleteCommit(p) ==
    /\ Runnable(p) /\ pc[p] = "complete_commit"
    /\ schedules' = [schedules EXCEPT ![cur(loc[p])].status = COMPLETED]
    /\ IF rating_due(loc[p].result)
       THEN goto(p, "rate_read", loc[p])
       ELSE next_schedule(p, loc[p])
    /\ UNCHANGED <<aside, config, scripted, pgn, orch, providers, games, rating, adjustments,
                   ncalls, cancelReq, stale>>

\* Lines 133-137: the model and the game are read; the new rating is computed
\* from them and its commit awaited.
RateRead(p) ==
    /\ Runnable(p) /\ pc[p] = "rate_read"
    /\ LET l == loc[p]
           db_result == games[l.game].result
       IN  IF db_result # NoResult
           THEN goto(p, "rate_commit",
                     [l EXCEPT !.rread = rating[schedules[cur(l)].model],
                               !.result = db_result])
           ELSE next_schedule(p, l)
    /\ UNCHANGED <<aside, config, scripted, pgn, orch, providers, store, ncalls, cancelReq, stale>>

\* Line 138.
RateCommit(p) ==
    /\ Runnable(p) /\ pc[p] = "rate_commit"
    /\ LET l == loc[p]
           s == cur(l)
       IN  /\ rating' = [rating EXCEPT ![schedules[s].model] =
                            adjust_rating(l.rread, l.result, STOCKFISH_RATING * RatingUnit)]
           /\ adjustments' = [adjustments EXCEPT ![s] = @ + 1]
           /\ next_schedule(p, l)
    /\ UNCHANGED <<aside, config, scripted, pgn, orch, providers, schedules, games, ncalls,
                   cancelReq, stale>>

\* ------------------------------------------------------- provider lifecycle
\* OpenRouterClient.start (36-44), which never suspends, then what follows
\* _ensure_dependencies_ready in the caller: start() sets _running and creates
\* the poll task (50-51), which p goes on as; run_once awaits the query of
\* _process_pending_matches (94).
after_ready(p, k, l) ==
    /\ orClient' = IF dry_run THEN orClient ELSE TRUE
    /\ IF k = "start"
       THEN /\ running' = TRUE
            /\ task' = p
            /\ pc' = [pc EXCEPT ![p] = "loop"]
            /\ kind' = [kind EXCEPT ![p] = "task"]
            /\ loc' = [loc EXCEPT ![p] = LocInit]
       ELSE /\ UNCHANGED orch
            /\ pc' = [pc EXCEPT ![p] = "select"]
            /\ kind' = [kind EXCEPT ![p] = k]
            /\ loc' = [loc EXCEPT ![p] = l]

\* _ensure_dependencies_ready (244-248) from its first line: StockfishEngine.start
\* (28-34) returns at once when an engine is set, else launches a subprocess and
\* suspends.
ensure_ready(p, k, l) ==
    IF ~dry_run /\ sfEngine = 0
    THEN /\ sfLive' = sfLive \cup {p}
         /\ pc' = [pc EXCEPT ![p] = "sf_start"]
         /\ kind' = [kind EXCEPT ![p] = k]
         /\ loc' = [loc EXCEPT ![p] = l]
         /\ UNCHANGED <<sfEngine, orClient, orch>>
    ELSE /\ UNCHANGED <<sfEngine, sfLive>>
         /\ after_ready(p, k, l)

\* StockfishEngine.start line 34: the launched engine is stored.
SfStartDone(p) ==
    /\ Runnable(p) /\ pc[p] = "sf_start"
    /\ sfEngine' = p
    /\ sfLive' = sfLive
    /\ after_ready(p, kind[p], loc[p])
    /\ UNCHANGED <<aside, config, scripted, pgn, store, ncalls, cancelReq, stale>>

\* ---------------------------------------------------------------- the API
NewCall(p) == p = ncalls + 1 /\ p \in Calls /\ ncalls' = p

\* At most MaxPasses coroutines are in start(), run_once() or the poll task.
PassRoom == Cardinality({q \in Calls : Live(q) /\ kind[q] \in {"start", "run_once", "task"}}) < MaxPasses

\* GameOrchestrator.start (46-51).
start(p) ==
    /\ NewCall(p)
    /\ PassRoom
    /\ IF running
       THEN finish(p) /\ UNCHANGED <<orch, providers>>
       ELSE ensure_ready(p, "start", LocInit)
    /\ UNCHANGED <<aside, config, scripted, pgn, store, cancelReq, stale>>

\* GameOrchestrator.run_once (67-69) as resync_games calls it: no filter.
run_once(p) ==
    /\ NewCall(p)
    /\ PassRoom
    /\ ensure_ready(p, "run_once", LocInit)
    /\ UNCHANGED <<aside, config, scripted, pgn, store, cancelReq, stale>>

\* schedule_match (routers/models.py 80-94): a PENDING schedule of model m is
\* committed, then run_once([m]).
schedule_match(p, m) ==
    /\ NewCall(p)
    /\ PassRoom
    /\ Len(schedules) < MaxSchedules
    /\ schedules' = Append(schedules, [model |-> m, status |-> PENDING, game |-> 0])
    /\ adjustments' = Append(adjustments, 0)
    /\ ensure_ready(p, "run_once", [LocInit EXCEPT !.filter = {m}])
    /\ UNCHANGED <<aside, config, scripted, pgn, games, rating, cancelReq, stale>>

\* stop() returns.  History: the passes that have a game in flight at that
\* moment.
stop_returns(p) ==
    /\ finish(p)
    /\ stale' = stale \cup {q \in Calls \ {p} : IsPass(q) /\ loc[q].game # 0}

\* StockfishEngine.stop (36-41): _engine is cleared before quit is awaited.
stockfish_stop(p) ==
    IF ~dry_run /\ sfEngine # 0
    THEN /\ sfEngine' = 0
         /\ goto(p, "sf_quit", [LocInit EXCEPT !.eng = sfEngine])
         /\ stale' = stale
    ELSE /\ sfEngine' = sfEngine
         /\ stop_returns(p)

\* Lines 62-65: OpenRouterClient.close (46-50) suspends in aclose when a client
\* is set; then StockfishEngine.stop.
close_providers(p) ==
    IF ~dry_run /\ orClient
    THEN /\ goto(p, "or_close", LocInit)
         /\ UNCHANGED <<sfEngine, stale>>
    ELSE stockfish_stop(p)

\* GameOrchestrator.stop (53-65) up to its first await.
stop(p) ==
    /\ NewCall(p)
    /\ IF ~running
       THEN finish(p) /\ UNCHANGED <<orch, providers, cancelReq, stale>>
       ELSE /\ running' = FALSE
            /\ IF task # 0 /\ Live(task)
               THEN /\ cancelReq' = cancelReq \cup {task}
                    /\ pc' = [pc EXCEPT ![p] = "stop_await"]
                    /\ kind' = [kind EXCEPT ![p] = "stop"]
                    /\ loc' = [loc EXCEPT ![p] = [LocInit EXCEPT !.awaited = task]]
                    /\ UNCHANGED <<task, providers, stale>>
               ELSE /\ task' = 0
                    /\ cancelReq' = cancelReq
                    /\ close_providers(p)
                    /\ UNCHANGED <<sfLive, orClient>>
    /\ UNCHANGED <<aside, config, scripted, pgn, store>>

\* Lines 60-61: the cancelled task is done; _task is cleared.
StopTaskDone(p) ==
    /\ pc[p] = "stop_await"
    /\ ~Live(loc[p].awaited)
    /\ task' = 0
    /\ close_providers(p)
    /\ UNCHANGED <<aside, config, scripted, pgn, running, sfLive, orClient, store, ncalls, cancelReq>>

\* OpenRouterClient.close line 50, then StockfishEngine.stop.
OrCloseDone(p) ==
    /\ pc[p] = "or_close"
    /\ orClient' = FALSE
    /\ stockfish_stop(p)
    /\ UNCHANGED <<aside, config, scripted, pgn, orch, sfLive, store, ncalls, cancelReq>>

\* engine.quit returned.
SfQuitDone(p) ==
    /\ pc[p] = "sf_quit"
    /\ sfLive' = sfLive \ {loc[p].eng}
    /\ stop_returns(p)
    /\ UNCHANGED <<aside, config, scripted, pgn, orch, sfEngine, orClient, store, ncalls, cancelReq>>

\* ------------------------------------------------------------ the poll task
\* _run_loop (71-75): the task starts, or wakes from asyncio.sleep, and tests
\* _running.
TaskLoop(p) ==
    /\ Runnable(p) /\ pc[p] = "loop"
    /\ IF running THEN goto(p, "select", LocInit) ELSE finish(p)
    /\ UNCHANGED <<aside, config, scripted, pgn, orch, providers, store, ncalls, cancelReq, stale>>

\* task.cancel() takes effect: CancelledError is raised at the task's await
\* and leaves _run_schedule (it is no Exception) and _run_loop (76-77).
Cancelled(p) ==
    /\ p \in cancelReq
    /\ cancelReq' = cancelReq \ {p}
    /\ finish(p)
    /\ UNCHANGED <<aside, config, scripted, pgn, orch, providers, store, ncalls, stale>>

\* ---------------------------------------------------------- specification
Next ==
    \E p \in Calls :
        \/ start(p)
        \/ stop(p)
        \/ run_once(p)
        \/ \E m \in Models : schedule_match(p, m)
        \/ Select(p)
        \/ GetSchedule(p)
        \/ InactiveCommit(p)
        \/ Claim(p)
        \/ EngineReply(p)
        \/ MoveCommit(p)
        \/ FinishCommit(p)
        \/ FailCommit(p)
        \/ CompleteCommit(p)
        \/ RateRead(p)
        \/ RateCommit(p)
        \/ SfStartDone(p)
        \/ StopTaskDone(p)
        \/ OrCloseDone(p)
        \/ SfQuitDone(p)
        \/ TaskLoop(p)
        \/ Cancelled(p)

Spec == Init /\ [][Next]_vars

\* ------------------------------------------------------ the play loop alone
\* One run_once pass that has set RUNNING and the Game for schedule 1 and
\* awaits that commit; in a live run the providers are started.  The moves
\* offered let a game go on past the cap, or end it by MaxGameLen.
InitPlay ==
    /\ dry_run \in BOOLEAN
    /\ scripted \in ScriptedQueues
    /\ horizon \in {MaxGameLen, max_half_moves + 1}
    /\ running = FALSE
    /\ task = 0
    /\ sfEngine = (IF dry_run THEN 0 ELSE 1)
    /\ sfLive = (IF dry_run THEN {} ELSE {1})
    /\ orClient = ~dry_run
    /\ schedules = <<[model |-> 1, status |-> PENDING, game |-> 0]>>
    /\ games = <<>>
    /\ rating = [m \in Models |-> DEFAULT_RATING * RatingUnit]
    /\ adjustments = <<0>>
    /\ ncalls = MaxCalls
    /\ kind = [p \in Calls |-> IF p = 1 THEN "run_once" ELSE "none"]
    /\ pc = [p \in Calls |-> IF p = 1 THEN "claim" ELSE "unused"]
    /\ cancelReq = {}
    /\ loc = [p \in Calls |-> IF p = 1 THEN [LocInit EXCEPT !.queue = <<1>>] ELSE LocInit]
    /\ stale = {}
    /\ pgn = {}
    /\ AsideIdle

NextPlay ==
    \/ Claim(1)
    \/ EngineReply(1)
    \/ MoveCommit(1)
    \/ FinishCommit(1)
    \/ FailCommit(1)
    \/ CompleteCommit(1)
    \/ RateRead(1)
    \/ RateCommit(1)

SpecPlay == InitPlay /\ [][NextPlay]_vars /\ WF_vars(NextPlay)

\* ------------------------------------------------- the move extractor alone
\* Replies are up to MaxWords words separated by one space; the legal moves
\* are pawn moves with at most one castling move, which gives check or not.
Words == {<<"e", "4">>, <<"d", "5">>, <<"O", "-", "O">>, <<"0", "-", "0">>,
          <<"O", "-", "O", "+">>, <<"n", "o">>, <<"M", "O", "V", "E", ":">>}

RECURSIVE Join(_)
Join(ws) ==
    IF ws = <<>> THEN <<>>
    ELSE IF Len(ws) = 1 THEN ws[1]
    ELSE ws[1] \o <<" ">> \o Join(Tail(ws))

Replies == {Join(ws) : ws \in UNION {[1..n -> Words] : n \in 0..MaxWords}}

LegalSets ==
    {pawn \cup castle : pawn \in (SUBSET {<<"e", "4">>, <<"d", "5">>}) \ {{}},
                        castle \in {{}, {<<"O", "-", "O">>}, {<<"O", "-", "O", "+">>}}}

\* An orchestrator just constructed for a dry run, with nothing scheduled.
OrchIdle == OrchInit(MaxGameLen) /\ dry_run /\ scripted = <<>>

CallsIdle ==
    /\ call = [c \in Callers |-> CallIdle]
    /\ or_lock = 0
    /\ sf_lock = 0
    /\ or_requests = {}
    /\ sf_requests = {}

InitExtract ==
    /\ OrchIdle
    /\ CallsIdle
    /\ arg \in [content : Replies, legal_moves : LegalSets]
    /\ ret = [set |-> FALSE, san |-> NoSan]

\* get_move line 97.
Extract ==
    /\ ~ret.set
    /\ ret' = [set |-> TRUE, san |-> _extract_san(arg.content, arg.legal_moves)]
    /\ UNCHANGED <<orchestrator, calls, arg>>

NextExtract == Extract

SpecExtract == InitExtract /\ [][NextExtract]_vars

\* ------------------------------------------------------ the providers alone
\* get_move and choose_move as their callers see them.  Caller 1 is the poll
\* task, which stop() cancels; the others are run_once passes.  call[c] holds
\* the invocation of c in progress, or its last one: k counts its invocations,
\* attempt the requests the invocation has sent, reply is the last content
\* received, out how the invocation ended and san what it returned.
_max_attempts == 3
PollTask == 1

ProvLegal == {<<"e", "4">>, <<"d", "5">>}
ProvReplies == {Join(<<<<"M", "O", "V", "E", ":">>, <<"e", "4">>>>),
                <<"n", "o">>, <<"O", "-", "O">>}

InitProv ==
    /\ OrchInit(MaxGameLen)
    /\ ~dry_run /\ scripted = <<>>
    /\ CallsIdle
    /\ arg = "none"
    /\ ret = "none"

CanCall(c) ==
    /\ call[c].pc = "idle"
    /\ call[c].k < MaxInvocations
    /\ call[c].out # "CancelledError"

NewInvocation(c, fn) == [CallIdle EXCEPT !.fn = fn, !.k = call[c].k + 1]

\* The invocation of c ends: it returns, or an exception leaves it.
ends(c, inv, out, san) ==
    call' = [call EXCEPT ![c] = [inv EXCEPT !.pc = "idle", !.out = out, !.san = san]]

\* Lines 81-87: the invocation inv of c, holding the lock, posts a request.
post(c, inv) ==
    /\ or_requests' = or_requests \cup {c}
    /\ call' = [call EXCEPT ![c] = [inv EXCEPT !.pc = "post", !.attempt = @ + 1]]

\* OpenRouterClient.start (36-44) and close (46-50) as far as get_move sees them.
ClientToggle ==
    /\ \A c \in Callers : call[c].pc = "idle"
    /\ orClient' = ~orClient
    /\ UNCHANGED <<dry_run, scripted, horizon, running, task, sfEngine, sfLive,
                   schedules, games, rating, adjustments, ncalls, kind, pc,
                   cancelReq, loc, stale, pgn, aside>>

\* StockfishEngine.start (28-34) and stop (36-41) as far as choose_move sees them.
EngineToggle ==
    /\ \A c \in Callers : call[c].pc = "idle"
    /\ sf_requests = {}
    /\ sfEngine' = (IF sfEngine = 0 THEN 1 ELSE 0)
    /\ sfLive' = (IF sfEngine = 0 THEN {1} ELSE {})
    /\ UNCHANGED <<dry_run, scripted, horizon, running, task, orClient,
                   schedules, games, rating, adjustments, ncalls, kind, pc,
                   cancelReq, loc, stale, pgn, aside>>

\* get_move (52-87) up to its first await.
\* Mutant: the test of line 61 is missing.
get_move_unchecked(c, legal_moves) ==
    /\ CanCall(c)
    /\ LET inv == [NewInvocation(c, "get_move") EXCEPT !.legal = legal_moves]
       IN  IF ~orClient
           THEN ends(c, inv, "OpenRouterError", NoSan) /\ UNCHANGED <<or_lock, or_requests>>
           ELSE IF or_lock = 0
           THEN or_lock' = c /\ post(c, inv)
           ELSE /\ call' = [call EXCEPT ![c] = [inv EXCEPT !.pc = "or_wait"]]
                /\ UNCHANGED <<or_lock, or_requests>>
    /\ UNCHANGED <<orchestrator, sf_lock, sf_requests, arg, ret>>

get_move(c, legal_moves) ==
    /\ CanCall(c)
    /\ LET inv == [NewInvocation(c, "get_move") EXCEPT !.legal = legal_moves]
       IN  IF ~orClient
           THEN ends(c, inv, "OpenRouterError", NoSan) /\ UNCHANGED <<or_lock, or_requests>>
           ELSE IF legal_moves = {}
           THEN ends(c, inv, "OpenRouterMoveError", NoSan) /\ UNCHANGED <<or_lock, or_requests>>
           ELSE IF or_lock = 0
           THEN or_lock' = c /\ post(c, inv)
           ELSE /\ call' = [call EXCEPT ![c] = [inv EXCEPT !.pc = "or_wait"]]
                /\ UNCHANGED <<or_lock, or_requests>>
    /\ UNCHANGED <<orchestrator, sf_lock, sf_requests, arg, ret>>

\* Line 79: the lock is free and c, waiting for it, takes it.
OrAcquire(c) ==
    /\ call[c].pc = "or_wait"
    /\ or_lock = 0
    /\ or_lock' = c
    /\ post(c, call[c])
    /\ UNCHANGED <<orchestrator, sf_lock, sf_requests, arg, ret>>

\* Lines 87-95: the request of c raised out, which no handler in get_move
\* catches: it leaves the loop and the async with block.
failed_retry(c, out) ==
    IF call[c].attempt < _max_attempts
    THEN or_lock' = or_lock /\ post(c, [call[c] EXCEPT !.out = out])
    ELSE /\ or_requests' = or_requests \ {c}
         /\ or_lock' = 0
         /\ ends(c, call[c], out, NoSan)

\* Mutant: the failure leaves get_move without leaving the async with block.
failed_locked(c, out) ==
    /\ or_requests' = or_requests \ {c}
    /\ or_lock' = or_lock
    /\ ends(c, call[c], out, NoSan)

failed(c, out) ==
    /\ or_requests' = or_requests \ {c}
    /\ or_lock' = 0
    /\ ends(c, call[c], out, NoSan)

\* Lines 87-109: the request of c is over.  It failed (transport error, or
\* raise_for_status: HTTPError), or its body was not a chat completion with a
\* text content (lines 89-95 raise: ReplyError), or a reply came: the move
\* extracted from it is returned, or the next attempt is posted, or the
\* attempts are used up.
\* Lines 89-109: a reply came, and _extract_san made san of it.
replied_one_more(c, content, san) ==
    IF san # NoSan
    THEN /\ or_requests' = or_requests \ {c}
         /\ or_lock' = 0
         /\ ends(c, [call[c] EXCEPT !.reply = content], "returned", san)
    ELSE IF call[c].attempt <= _max_attempts
    THEN or_lock' = or_lock /\ post(c, [call[c] EXCEPT !.reply = content])
    ELSE /\ or_requests' = or_requests \ {c}
         /\ or_lock' = 0
         /\ ends(c, [call[c] EXCEPT !.reply = content], "OpenRouterMoveError", NoSan)

replied(c, content, san) ==
    IF san # NoSan
    THEN /\ or_requests' = or_requests \ {c}
         /\ or_lock' = 0
         /\ ends(c, [call[c] EXCEPT !.reply = content], "returned", san)
    ELSE IF call[c].attempt < _max_attempts
    THEN or_lock' = or_lock /\ post(c, [call[c] EXCEPT !.reply = content])
    ELSE /\ or_requests' = or_requests \ {c}
         /\ or_lock' = 0
         /\ ends(c, [call[c] EXCEPT !.reply = content], "OpenRouterMoveError", NoSan)

PostDone(c) ==
    /\ call[c].pc = "post"
    /\ \/ \E out \in {"HTTPError", "ReplyError"} : failed(c, out)
       \/ \E content \in ProvReplies : replied(c, content, _extract_san(content, ProvLegal))
    /\ UNCHANGED <<orchestrator, sf_lock, sf_requests, arg, ret>>

\* StockfishEngine.choose_move (43-51) up to its first await; the request is
\* the engine.play call handed to a worker thread.
choose_move(c) ==
    /\ CanCall(c)
    /\ LET inv == NewInvocation(c, "choose_move")
       IN  IF sfEngine = 0
           THEN ends(c, inv, "RuntimeError", NoSan) /\ UNCHANGED <<sf_lock, sf_requests>>
           ELSE IF sf_lock = 0
           THEN /\ sf_lock' = c
                /\ sf_requests' = sf_requests \cup {<<c, inv.k>>}
                /\ call' = [call EXCEPT ![c] = [inv EXCEPT !.pc = "play"]]
           ELSE /\ call' = [call EXCEPT ![c] = [inv EXCEPT !.pc = "sf_wait"]]
                /\ UNCHANGED <<sf_lock, sf_requests>>
    /\ UNCHANGED <<orchestrator, or_lock, or_requests, arg, ret>>

\* Line 50: the lock is free and c, waiting for it, takes it.
SfAcquire(c) ==
    /\ call[c].pc = "sf_wait"
    /\ sf_lock = 0
    /\ sf_lock' = c
    /\ sf_requests' = sf_requests \cup {<<c, call[c].k>>}
    /\ call' = [call EXCEPT ![c].pc = "play"]
    /\ UNCHANGED <<orchestrator, or_lock, or_requests, arg, ret>>

\* Lines 51-52: engine.play is over in its thread; the move is returned, or
\* the engine's exception raised.
PlayDone(c) ==
    /\ call[c].pc = "play"
    /\ sf_requests' = sf_requests \ {<<c, call[c].k>>}
    /\ sf_lock' = 0
    /\ \E out \in {"returned", "EngineError"} : ends(c, call[c], out, NoSan)
    /\ UNCHANGED <<orchestrator, or_lock, or_requests, arg, ret>>

\* stop() cancels the poll task (orchestrator.py 57-61) while it is suspended
\* in a provider: CancelledError leaves the async with block, which releases
\* the lock.  A posted request is cancelled with its coroutine; an engine.play
\* call that its worker thread has started cannot be cancelled and goes on.
CancelCall(c) ==
    /\ c = PollTask
    /\ call[c].pc \in {"or_wait", "post", "sf_wait", "play"}
    /\ or_requests' = or_requests \ {c}
    /\ or_lock' = (IF call[c].pc = "post" THEN 0 ELSE or_lock)
    /\ sf_lock' = (IF call[c].pc = "play" THEN 0 ELSE sf_lock)
    /\ \E started \in BOOLEAN :
          sf_requests' = IF started THEN sf_requests ELSE sf_requests \ {<<c, call[c].k>>}
    /\ ends(c, call[c], "CancelledError", NoSan)
    /\ UNCHANGED <<orchestrator, arg, ret>>

\* An engine.play call whose caller was cancelled is over in its thread.
ThreadDone(c) ==
    /\ \E r \in sf_requests :
          /\ r[1] = c
          /\ ~(call[c].pc = "play" /\ call[c].k = r[2])
          /\ sf_requests' = sf_requests \ {r}
    /\ UNCHANGED <<orchestrator, call, or_lock, sf_lock, or_requests, arg, ret>>

NextProv ==
    \/ ClientToggle
    \/ EngineToggle
    \/ \E c \in Callers :
        \/ \E legal_moves \in {{}, ProvLegal} : get_move(c, legal_moves)
        \/ OrAcquire(c)
        \/ PostDone(c)
        \/ choose_move(c)
        \/ SfAcquire(c)
        \/ PlayDone(c)
        \/ CancelCall(c)
        \/ ThreadDone(c)

SpecProv == InitProv /\ [][NextProv]_vars

\* Every request ends (the HTTP client's timeout), and asyncio.Lock wakes its
\* waiters in turn.
SpecProvLive ==
    SpecProv /\ \A c \in Callers : WF_vars(PostDone(c)) /\ SF_vars(OrAcquire(c))

\* ------------------------------------------------- the model-id filter alone
\* One dry-run run_once(model_ids) over a table of schedules.  model_ids is
\* None, or a sequence of entries as the command line gives them (texts) that
\* GameManager._coerce_ids and lines 80-88 convert with int().
MaxEntries == 2
Digits == [c \in {"0", "1", "2"} |-> CASE c = "0" -> 0 [] c = "1" -> 1 [] c = "2" -> 2]
Entries == {<<"1">>, <<"2">>, <<"x">>, <<"1", "x">>, <<"0", "2">>, <<>>}

\* int(mid) does not raise ValueError.
is_int(mid) == mid # <<>> /\ \A i \in 1..Len(mid) : mid[i] \in DOMAIN Digits

RECURSIVE int(_)
int(mid) == IF mid = <<>> THEN 0 ELSE 10 * int(SubSeq(mid, 1, Len(mid) - 1)) + Digits[mid[Len(mid)]]

\* Lines 80-88 (and _coerce_ids before them): the entries int() accepts.
converted(model_ids) == {int(model_ids[i]) : i \in {j \in 1..Len(model_ids) : is_int(model_ids[j])}}

FilterInputs ==
    {[given |-> FALSE, model_ids |-> <<>>]}
    \cup {[given |-> TRUE, model_ids |-> ids] : ids \in UNION {[1..n -> Entries] : n \in 0..MaxEntries}}

FilterTables ==
    UNION {[1..n -> [model : Models, status : {PENDING, COMPLETED}, game : {0}]] : n \in 1..MaxSchedules}

InitFilter ==
    /\ dry_run = TRUE
    /\ scripted = <<>>
    /\ horizon = MaxGameLen
    /\ running = FALSE
    /\ task = 0
    /\ sfEngine = 0
    /\ sfLive = {}
    /\ orClient = FALSE
    /\ schedules \in FilterTables
    /\ games = <<>>
    /\ rating = [m \in Models |-> DEFAULT_RATING * RatingUnit]
    /\ adjustments = [s \in 1..Len(schedules) |-> 0]
    /\ ncalls = 0
    /\ kind = [p \in Calls |-> "none"]
    /\ pc = [p \in Calls |-> "unused"]
    /\ cancelReq = {}
    /\ loc = [p \in Calls |-> LocInit]
    /\ stale = {}
    /\ pgn = {}
    /\ CallsIdle
    /\ arg \in FilterInputs
    /\ ret = "none"

\* run_once(model_ids) (67-69) with lines 80-88: ids is None for no filter,
\* else the converted set; line 91 tests `if ids`, so that loc.filter = {}
\* stands for None and for the empty set alike.
run_once_ids(p) ==
    /\ NewCall(p)
    /\ p = 1
    /\ ensure_ready(p, "run_once",
                    [LocInit EXCEPT !.filter = IF arg.given THEN converted(arg.model_ids) ELSE {}])
    /\ UNCHANGED <<aside, config, scripted, pgn, store, cancelReq, stale>>

NextFilter ==
    \/ run_once_ids(1)
    \/ Select(1)
    \/ GetSchedule(1)
    \/ InactiveCommit(1)
    \/ Claim(1)
    \/ MoveCommit(1)
    \/ FinishCommit(1)
    \/ CompleteCommit(1)

SpecFilter == InitFilter /\ [][NextFilter]_vars

\* ------------------------------------------------------ one dry-run pass
\* The orchestrator of the test (test_orchestrator.py 24-41): dry run, no
\* providers, one PENDING schedule of the active model, and run_once called
\* without start().  The scripted queue is empty, short, or the test's six
\* entries; the game is over by MaxGameLen, or shortly after the scripted
\* moves, or goes on past the cap.
TestScripted == 6

InitDry ==
    /\ dry_run = TRUE
    /\ scripted \in {[i \in 1..k |-> i] : k \in {0, MaxScripted, TestScripted}}
    /\ horizon \in {MaxGameLen, TestScripted + MaxGameLen, max_half_moves + 1}
    /\ running = FALSE
    /\ task = 0
    /\ sfEngine = 0
    /\ sfLive = {}
    /\ orClient = FALSE
    /\ schedules = <<[model |-> 1, status |-> PENDING, game |-> 0]>>
    /\ games = <<>>
    /\ rating = [m \in Models |-> DEFAULT_RATING * RatingUnit]
    /\ adjustments = <<0>>
    /\ ncalls = 0
    /\ kind = [p \in Calls |-> "none"]
    /\ pc = [p \in Calls |-> "unused"]
    /\ cancelReq = {}
    /\ loc = [p \in Calls |-> LocInit]
    /\ stale = {}
    /\ pgn = {}
    /\ AsideIdle

NextDry ==
    \/ run_once(1)
    \/ Select(1)
    \/ GetSchedule(1)
    \/ Claim(1)
    \/ MoveCommit(1)
    \/ FinishCommit(1)
    \/ CompleteCommit(1)

SpecDry == InitDry /\ [][NextDry]_vars /\ WF_vars(NextDry)

\* ------------------------------------------------------ adjust_rating alone
\* adjust_rating is applied to one pair of ratings and each result in turn;
\* ret collects the new ratings.
MaxRatingStep == 8
Ratings ==
    {400 * i * RatingUnit : i \in 0..MaxRatingStep}
      \cup {DEFAULT_RATING * RatingUnit, (DEFAULT_RATING + 50) * RatingUnit}

InitRating ==
    /\ OrchInit(MaxGameLen)
    /\ dry_run /\ scripted = <<>>
    /\ CallsIdle
    /\ arg \in [current_rating : Ratings, opponent_rating : Ratings]
    /\ ret = [done |-> {}, new |-> [r \in GameResult |-> 0]]

Rate(result) ==
    /\ result \notin ret.done
    /\ ret' = [done |-> ret.done \cup {result},
               new |-> [ret.new EXCEPT ![result] =
                          adjust_rating(arg.current_rating, result, arg.opponent_rating)]]
    /\ UNCHANGED <<orchestrator, calls, arg>>

NextRating == \E result \in GameResult : Rate(result)

SpecRating == InitRating /\ [][NextRating]_vars

\* ---------------------------------------------------- the scheduler alone
\* The scheduler is started and stopped while schedules wait: those that
\* _ensure_schedules committed before start() (game_manager.py 31-32), of a
\* model that may have been deactivated since, and those a schedule_match
\* request commits later.  A game ends by MaxGameLen.
InitPoll ==
    /\ dry_run \in BOOLEAN
    /\ scripted \in ScriptedQueues
    /\ horizon = MaxGameLen
    /\ running = FALSE
    /\ task = 0
    /\ sfEngine = 0
    /\ sfLive = {}
    /\ orClient = FALSE
    /\ schedules \in {<<>>} \cup {<<[model |-> m, status |-> PENDING, game |-> 0]>> : m \in Models}
    /\ games = <<>>
    /\ rating = [m \in Models |-> DEFAULT_RATING * RatingUnit]
    /\ adjustments = [s \in 1..Len(schedules) |-> 0]
    /\ ncalls = 0
    /\ kind = [p \in Calls |-> "none"]
    /\ pc = [p \in Calls |-> "unused"]
    /\ cancelReq = {}
    /\ loc = [p \in Calls |-> LocInit]
    /\ stale = {}
    /\ pgn = {}
    /\ AsideIdle

\* A step of a pass of p, from its query to its last commit.
PassStep(p) ==
    \/ Select(p)
    \/ GetSchedule(p)
    \/ InactiveCommit(p)
    \/ Claim(p)
    \/ EngineReply(p)
    \/ MoveCommit(p)
    \/ FinishCommit(p)
    \/ FailCommit(p)
    \/ CompleteCommit(p)
    \/ RateRead(p)
    \/ RateCommit(p)

\* A step of the poll task p.
TaskStep(p) == kind[p] = "task" /\ (TaskLoop(p) \/ PassStep(p))

\* Any step of p that is not a new call: the event loop resumes p.
Resume(p) ==
    \/ TaskLoop(p)
    \/ PassStep(p)
    \/ Cancelled(p)
    \/ SfStartDone(p)
    \/ StopTaskDone(p)
    \/ OrCloseDone(p)
    \/ SfQuitDone(p)

\* The application starts the scheduler when it starts up (app/main.py 40),
\* before it serves a request; the requests then commit schedules.
NextPoll ==
    \/ start(1)
    \/ \E p \in Calls :
          \/ p # 1 /\ \E m \in Models : schedule_match(p, m)
          \/ TaskLoop(p)
          \/ PassStep(p)
          \/ SfStartDone(p)

\* The poll task is scheduled fairly and the engine answers; nothing is
\* assumed of the requests' own coroutines.
SpecPoll == InitPoll /\ [][NextPoll]_vars /\ \A p \in Calls : WF_vars(TaskStep(p))

\* ------------------------------------------------- the scheduler stopped
\* start() and stop() are called in any order while a schedule waits or is
\* played; every coroutine is scheduled fairly.
NextStop == \E p \in Calls : start(p) \/ stop(p) \/ Resume(p)

SpecStop == InitPoll /\ [][NextStop]_vars /\ \A p \in Calls : WF_vars(Resume(p))

\* ------------------------------------------------- _ensure_schedules alone
\* GameManager._ensure_schedules is called up to MaxCalls times with the same
\* model_ids (arg) over a table of schedules, with dispatches in between;
\* ret holds which Model rows are active and, as history, the number of calls
\* since the last dispatch and the number of rows each call added.
EnsureInputs ==
    {x \in FilterInputs : Len(x.model_ids) < MaxEntries}

EnsureTables ==
    UNION {[1..n -> [model : Models, status : {PENDING, COMPLETED}, game : {0}]] :
              n \in 0..(MaxSchedules - 1)}

InitEnsure ==
    /\ dry_run = TRUE
    /\ scripted = <<>>
    /\ horizon = MaxGameLen
    /\ running = FALSE
    /\ task = 0
    /\ sfEngine = 0
    /\ sfLive = {}
    /\ orClient = FALSE
    /\ schedules \in EnsureTables
    /\ games = <<>>
    /\ rating = [m \in Models |-> DEFAULT_RATING * RatingUnit]
    /\ adjustments = [s \in 1..Len(schedules) |-> 0]
    /\ ncalls = 0
    /\ kind = [p \in Calls |-> "none"]
    /\ pc = [p \in Calls |-> "unused"]
    /\ cancelReq = {}
    /\ loc = [p \in Calls |-> LocInit]
    /\ stale = {}
    /\ pgn = {}
    /\ CallsIdle
    /\ arg \in EnsureInputs
    /\ ret \in [active : SUBSET Models, streak : {0}, made : {<<>>}]

\* _coerce_ids (56-65): None stays None, else the entries int() accepts.
\* Lines 41-44: the active models, of ids when `if ids` holds (ids is neither
\* None nor empty).
ensure_models(active, input) ==
    LET ids == IF input.given THEN converted(input.model_ids) ELSE {}
    IN  {m \in active : ids # {} => m \in ids}

\* Mutant: the test of line 52 is missing.
no_pending_unchecked(rows, m) == TRUE

\* Lines 46-52: no PENDING schedule of model m is found.
no_pending(rows, m) ==
    ~\E s \in 1..Len(rows) : rows[s].model = m /\ rows[s].status = PENDING

\* Lines 45-53: the loop over the models, in the order of their ids.
RECURSIVE ensured(_, _)
ensured(rows, ms) ==
    IF ms = {}
    THEN rows
    ELSE LET m == CHOOSE x \in ms : \A y \in ms : x <= y
         IN  ensured(IF no_pending(rows, m)
                     THEN Append(rows, [model |-> m, status |-> PENDING, game |-> 0])
                     ELSE rows,
                     ms \ {m})

\* _ensure_schedules (38-53) with the commit of get_session (database.py 49).
_ensure_schedules ==
    /\ ncalls < MaxCalls
    /\ ncalls' = ncalls + 1
    /\ schedules' = ensured(schedules, ensure_models(ret.active, arg))
    /\ adjustments' = [s \in 1..Len(schedules') |-> 0]
    /\ ret' = [ret EXCEPT !.streak = @ + 1,
                          !.made = Append(@, Len(schedules') - Len(schedules))]
    /\ UNCHANGED <<config, scripted, pgn, orch, providers, games, rating, kind, pc,
                   cancelReq, loc, stale, calls, arg>>

\* A pass dispatches the PENDING schedule s (orchestrator.py 103-130): it is
\* left FAILED, RUNNING or COMPLETED.
dispatched(s) ==
    /\ s \in 1..Len(schedules)
    /\ schedules[s].status = PENDING
    /\ \E st \in {FAILED, RUNNING, COMPLETED} :
          schedules' = [schedules EXCEPT ![s].status = st]
    /\ ret' = [ret EXCEPT !.streak = 0]
    /\ UNCHANGED <<config, scripted, pgn, orch, providers, games, rating, adjustments,
                   ncalls, kind, pc, cancelReq, loc, stale, calls, arg>>

NextEnsure ==
    \/ _ensure_schedules
    \/ \E s \in 1..(MaxSchedules + MaxCalls * Cardinality(Models)) : dispatched(s)

SpecEnsure == InitEnsure /\ [][NextEnsure]_vars

\* ------------------------------------------------------------------ claims
ScheduleIds == 1..Len(schedules)
GameIds == 1..Len(games)
GamesOf(s) == {g \in GameIds : games[g].sched = s}
Moved(p) == pc'[p] # pc[p] \/ loc'[p] # loc[p]
InPlay(p) == pc[p] \in {"llm", "engine", "move_commit", "finish_commit"}

\* C1: at most one Game row is ever created for a schedule, over any
\* interleaving of passes.
C1_OneGamePerSchedule == \A s \in ScheduleIds : Cardinality(GamesOf(s)) <= 1

\* C2: a schedule's persisted status only moves forward: PENDING to RUNNING or
\* FAILED, RUNNING to COMPLETED or FAILED, and COMPLETED and FAILED are final.
Forward(a, b) ==
    \/ a = b
    \/ a = PENDING /\ b \in {RUNNING, FAILED}
    \/ a = RUNNING /\ b \in {COMPLETED, FAILED}

C2_StatusForwardOnly ==
    [][\A s \in ScheduleIds : Forward(schedules[s].status, schedules'[s].status)]_vars

\* C3: when the play loop of a match has raised, the handler's commit marks
\* that schedule FAILED, changes no other schedule, and the pass goes on with
\* the next schedule it selected (or ends normally when none is left).
C3_FailureContained ==
    [][\A p \in Calls :
          (pc[p] = "fail_commit" /\ Moved(p) /\ p \notin cancelReq) =>
             LET s == cur(loc[p])
                 rest == Tail(loc[p].queue)
             IN  /\ schedules'[s].status = FAILED
                 /\ \A t \in ScheduleIds \ {s} : schedules'[t] = schedules[t]
                 /\ games' = games /\ rating' = rating
                 /\ IF rest # <<>>
                    THEN pc'[p] = "get_sched" /\ loc'[p].queue = rest
                    ELSE pc'[p] = (IF kind[p] = "task" THEN "loop" ELSE "done")]_vars

\* C3 witness: one pass has failed schedule 1 in its play loop and is
\* dispatching schedule 2; no other pass has yet selected anything.
C3_Witness ==
    \E p \in Calls :
        /\ kind[p] = "run_once" /\ pc[p] = "get_sched" /\ loc[p].queue = <<2>>
        /\ schedules[1].status = FAILED /\ schedules[1].game # 0
        /\ schedules[2].status = PENDING
        /\ \A q \in Calls \ {p} :
              pc[q] = "unused" \/ (kind[q] = "run_once" /\ pc[q] \in {"select", "sf_start"})

\* C4: a rating is changed only by the rating commit of a match, not in a dry
\* run, on behalf of a schedule that is COMPLETED; a schedule that is not
\* COMPLETED has had no rating adjustment.
C4_RatingStep ==
    rating' # rating =>
        /\ ~dry_run
        /\ \E p \in Calls :
              /\ pc[p] = "rate_commit" /\ Moved(p)
              /\ schedules[cur(loc[p])].status = COMPLETED
              /\ \A m \in Models \ {schedules[cur(loc[p])].model} :
                    rating'[m] = rating[m]

C4_RatingState ==
    \A s \in ScheduleIds :
        adjustments[s] > 0 => (~dry_run /\ schedules[s].status = COMPLETED)

C4_RatingOnlyAfterCompleted == [](C4_RatingState) /\ [][C4_RatingStep]_vars

\* C5: for each match completed in a non-dry run the rating adjustment is
\* applied exactly once: never twice, and once no pass works on it any more,
\* not zero times.
WorkedOn(s) == \E p \in Calls : Live(p) /\ loc[p].queue # <<>> /\ cur(loc[p]) = s

C5_AdjustedExactlyOnce ==
    \A s \in ScheduleIds :
        /\ adjustments[s] <= 1
        /\ (~dry_run /\ schedules[s].status = COMPLETED /\ ~WorkedOn(s))
              => adjustments[s] = 1

\* C6: a PENDING schedule of an inactive model goes to FAILED at the commit
\* that follows the model's fetch; no Game is ever created for it, its game
\* link stays empty, it is never RUNNING or COMPLETED and no move is chosen
\* or requested for it.
InactiveSchedule(s) == ~is_active(schedules[s].model)

C6_InactiveState ==
    \A s \in ScheduleIds : InactiveSchedule(s) =>
        /\ schedules[s].status \in {PENDING, FAILED}
        /\ schedules[s].game = 0
        /\ GamesOf(s) = {}
        /\ \A p \in Calls : (Live(p) /\ loc[p].queue # <<>> /\ cur(loc[p]) = s)
              => pc[p] \in {"get_sched", "inactive_commit"}

C6_InactiveStep ==
    \A p \in Calls :
        (pc[p] = "inactive_commit" /\ Moved(p) /\ p \notin cancelReq) =>
            /\ schedules[cur(loc[p])].status \in {PENDING, FAILED}
            /\ schedules'[cur(loc[p])].status = FAILED
            /\ games' = games /\ scripted' = scripted /\ rating' = rating
            /\ ~InPlay(p)'

C6_InactiveFails == [](C6_InactiveState) /\ [][C6_InactiveStep]_vars

\* C6 witness: a schedule of the inactive model has been marked FAILED.
C6_Witness ==
    \E s \in ScheduleIds :
        InactiveSchedule(s) /\ schedules[s].status = FAILED /\ schedules[s].game = 0

\* C7: a play loop records at most 400 half-moves; when it ends without an
\* exception the result is WIN, LOSS or DRAW; and it ends.
PlayEnded(p) == pc[p] \notin {"claim", "llm", "engine", "move_commit"}

C7_PlayState ==
    /\ \A g \in GameIds : Len(games[g].moves) <= max_half_moves
    /\ \A p \in Calls : loc[p].n <= max_half_moves
    /\ \A p \in Calls : pc[p] \in {"finish_commit", "complete_commit"}
          => loc[p].result \in GameResult
    /\ \A g \in GameIds : games[g].completed =>
          /\ games[g].result \in GameResult
          /\ games[g].moves_count = Len(games[g].moves)

C7_PlayLoopBounded == [](C7_PlayState) /\ <>(PlayEnded(1))

\* C7 witness: a game stopped by the cap with 400 half-moves recorded and the
\* position still undecided, finalized as a DRAW.
C7_Witness ==
    \E g \in GameIds :
        /\ Len(games[g].moves) = max_half_moves
        /\ games[g].completed /\ games[g].result = DRAW
        /\ horizon > max_half_moves

\* C8: when a call of stop() returns, and every start() and run_once() called
\* before it has returned, no poll task is left, both providers are shut down
\* and no engine subprocess is left.
StopReturns(p) == pc'[p] = "done" /\ (stop(p) \/ kind[p] = "stop")
OthersReturned(p) == \A q \in Calls \ {p} : Live(q) => kind[q] = "task"

C8_StopShutsDown ==
    [][\A p \in Calls : (StopReturns(p) /\ OthersReturned(p)) =>
          /\ \A q \in Calls : ~(kind'[q] = "task" /\ Live(q)')
          /\ ~orClient' /\ sfEngine' = 0 /\ sfLive' = {}]_vars

\* C9: a pass that had a game in flight when a stop() that shut the scheduler
\* down returned makes no further write to the store.
C9_NoWriteAfterStop ==
    [][\A q \in stale : ~(Moved(q) /\ store' # store)]_vars

\* C10: at most one poll task exists at any moment (a task whose cancellation
\* is requested is not counted), and in a live run the providers are
\* initialized while a poll pass runs.
LiveTasks == {p \in Calls : kind[p] = "task" /\ Live(p) /\ p \notin cancelReq}

C10_OnePollTask ==
    /\ Cardinality(LiveTasks) <= 1
    /\ \A p \in LiveTasks : (~dry_run /\ pc[p] # "loop")
          => (sfEngine # 0 /\ orClient)

\* C18: the extractor returns not-found or a member of the legal-move set;
\* when the reply holds tokens of the set (one or several), it returns the one
\* occurring last.  A token is a word of the reply; replies in which the
\* pattern finds a legal move inside a longer word are left out.
LegalTokens(content, legal_moves) ==
    SelectSeq([i \in 1..Len(Split(content, 1)) |-> Replace0(Split(content, 1)[i])],
              LAMBDA token : token \in legal_moves)

WholeWords(content, legal_moves) ==
    \A i \in 1..Len(FindGroups(content, 1)) :
        FindGroups(content, 1)[i] \in legal_moves =>
            \E j \in 1..Len(Split(content, 1)) :
                Replace0(Split(content, 1)[j]) = FindGroups(content, 1)[i]

C18_ExtractsLastLegalToken ==
    (ret.set /\ WholeWords(arg.content, arg.legal_moves)) =>
        LET toks == LegalTokens(arg.content, arg.legal_moves)
        IN  /\ ret.san \in arg.legal_moves \cup {NoSan}
            /\ toks # <<>> => ret.san = toks[Len(toks)]

\* C11: each provider has at most one request in flight at any time, also when
\* a run_once pass overlaps the poll pass, and a get_move invocation that has
\* a request in flight is the one holding the client's lock, so that its
\* requests are all over before another invocation's first.
C11_OneRequestInFlight ==
    /\ Cardinality(or_requests) <= 1
    /\ Cardinality(sf_requests) <= 1
    /\ \A c \in or_requests : or_lock = c /\ call[c].pc = "post"
    /\ \A c \in Callers : call[c].pc = "post" => c \in or_requests

\* C12: one get_move invocation sends at most 3 requests; it goes on to a
\* further request only after a reply that yields no legal move; what it
\* returns is the move extracted from the last reply it received, a legal
\* move, with no request left in flight; and when its third reply yields no
\* legal move either it fails with OpenRouterMoveError.
C12_AtMostThreeRequests ==
    \A c \in Callers : call[c].fn = "get_move" =>
        LET inv == call[c]
            san == _extract_san(inv.reply, ProvLegal)
        IN  /\ inv.attempt <= _max_attempts
            /\ (inv.pc = "post" /\ inv.attempt > 1) => san = NoSan
            /\ inv.out = "returned" =>
                  /\ inv.pc = "idle" /\ c \notin or_requests
                  /\ inv.san = san /\ inv.san \in ProvLegal
            /\ (inv.out = "OpenRouterMoveError" /\ inv.attempt > 0) =>
                  inv.attempt = _max_attempts /\ san = NoSan
            /\ (inv.pc = "idle" /\ inv.attempt = _max_attempts /\ inv.reply # <<>>
                   /\ san = NoSan /\ inv.out \notin {"HTTPError", "ReplyError", "CancelledError"}) =>
                  inv.out = "OpenRouterMoveError"

C12_Witness ==
    \E c, d \in Callers :
        /\ call[c].fn = "get_move" /\ call[c].out = "returned" /\ call[c].attempt = 2
        /\ call[d].fn = "get_move" /\ call[d].out = "OpenRouterMoveError"
        /\ call[d].attempt = _max_attempts

\* C13: a transport or HTTP-status failure of a request of get_move is not
\* retried: the step in which the request fails ends the invocation with that
\* error, sends no further request and releases the lock, and the invocation
\* stays ended.
C13_FailureState ==
    \A c \in Callers : call[c].out = "HTTPError" =>
        /\ call[c].pc = "idle"
        /\ c \notin or_requests
        /\ or_lock # c

C13_FailureStep ==
    \A c \in Callers :
        (call'[c].out = "HTTPError" /\ call'[c].k = call[c].k) =>
            /\ call'[c].attempt = call[c].attempt
            /\ call[c].pc \in {"post", "idle"}
            /\ call[c].pc = "post" => (call[c].out = "none" /\ c \in or_requests)

C14_FilterRespected ==
    [][\A s \in 1..Len(schedules) :
          (arg.given /\ schedules[s].status = PENDING /\ schedules'[s].status # PENDING)
              => schedules[s].model \in converted(arg.model_ids)]_vars

\* C15: within one pass the selected schedules are dispatched in ascending
\* order of requested time, one at a time: the pass holds its selection in
\* ascending order and works on the head only; a Game is created for the head
\* of the creating pass's selection; and a pass leaves a schedule for the next
\* only by skipping it (it was no longer PENDING at the fetch) or at or after
\* its own commit of FAILED or COMPLETED for it.
C15_Ascending ==
    \A p \in Calls : \A i, j \in 1..Len(loc[p].queue) :
        i < j => loc[p].queue[i] < loc[p].queue[j]

C15_Leaves(p) ==
    LET s == cur(loc[p])
    IN  /\ loc'[p].queue = Tail(loc[p].queue)
        /\ \/ pc[p] = "get_sched" /\ schedules[s].status # PENDING
           \/ /\ pc[p] \in {"inactive_commit", "fail_commit", "complete_commit"}
              /\ schedules'[s].status \in {COMPLETED, FAILED}
           \/ pc[p] \in {"rate_read", "rate_commit"}

C15_Step ==
    /\ \A p \in Calls :
          /\ (loc[p].queue # <<>> /\ loc'[p].queue # loc[p].queue /\ p \notin cancelReq)
                => C15_Leaves(p)
          /\ (pc'[p] = "rate_read" /\ pc[p] # "rate_read")
                => pc[p] = "complete_commit" /\ schedules'[cur(loc[p])].status = COMPLETED
          /\ (pc'[p] = "rate_commit" /\ pc[p] # "rate_commit") => pc[p] = "rate_read"
    /\ Len(games') > Len(games) =>
          \E p \in Calls : /\ pc[p] = "claim" /\ Moved(p)
                           /\ loc'[p].queue = loc[p].queue
                           /\ games'[Len(games')].sched = cur(loc[p])

C15_OneAtATimeInOrder == [](C15_Ascending) /\ [][C15_Step]_vars

\* C15 witness: no other pass has selected anything yet; this one has
\* completed schedule 1 and is playing the game of schedule 2.
C15_Witness ==
    \E p \in Calls :
        /\ \A q \in Calls \ {p} : pc[q] \in {"unused", "select"}
        /\ loc[p].queue = <<2>> /\ loc[p].game = 2 /\ InPlay(p)
        /\ schedules[1].status = COMPLETED /\ games[1].sched = 1
        /\ Len(games) = 2

\* C16: a dry-run game played from a scripted queue of 6 moves, each legal
\* and so recorded as rows 1..6 in the queue's order, has exactly these 6 Move
\* rows when it is finalized, and no further row.
C16_ExactlyScriptedRows ==
    \A g \in GameIds :
        (/\ dry_run /\ games[g].completed
         /\ Len(games[g].moves) >= TestScripted
         /\ \A i \in 1..TestScripted : games[g].moves[i].san = <<"scripted", i>>)
            => Len(games[g].moves) = TestScripted

\* C17: in a dry run without providers one run_once pass over a PENDING
\* schedule of an active model comes to its end, and at its end the schedule
\* is COMPLETED, its Game has a result and a completion mark, and the
\* transcript of that game and no other has been written; start() was never
\* called: the scheduler is not running and has no task.
C17_PassDone ==
    pc[1] = "done" =>
        /\ schedules[1].status = COMPLETED
        /\ schedules[1].game = 1 /\ Len(games) = 1
        /\ games[1].result \in GameResult /\ games[1].completed
        /\ pgn = {1}
        /\ rating = [m \in Models |-> DEFAULT_RATING * RatingUnit]

C17_DryRunCompletes ==
    /\ [](C17_PassDone /\ ~running /\ task = 0)
    /\ <>(pc[1] = "done")

\* C17 witness: the pass is over after a game that the cap ended.
C17_Witness ==
    /\ pc[1] = "done" /\ schedules[1].status = COMPLETED
    /\ Len(games[1].moves) = max_half_moves
    /\ games[1].result = DRAW /\ 1 \in pgn

\* C19: for fixed current and opponent ratings the new rating for WIN is at
\* least that for DRAW, which is at least that for LOSS.
C19_MonotonicInResult ==
    ret.done = GameResult =>
        ret.new[WIN] >= ret.new[DRAW] /\ ret.new[DRAW] >= ret.new[LOSS]

C19_Witness ==
    /\ ret.done = GameResult
    /\ arg.current_rating # arg.opponent_rating
    /\ ret.new[WIN] > ret.new[DRAW] /\ ret.new[DRAW] > ret.new[LOSS]

\* C20: a DRAW against an opponent of the same rating leaves the rating as it
\* was: adjust_rating(r, DRAW, r) = r.
C20_DrawAgainstEqual ==
    (DRAW \in ret.done /\ arg.current_rating = arg.opponent_rating)
        => ret.new[DRAW] = arg.current_rating

C20_Witness ==
    /\ DRAW \in ret.done
    /\ arg.current_rating = arg.opponent_rating
    /\ arg.current_rating = DEFAULT_RATING * RatingUnit
    /\ ret.new[DRAW] = DEFAULT_RATING * RatingUnit

\* C21: get_move with an empty legal-move set on a started client ends at
\* once with OpenRouterMoveError, and on a client that is not started with
\* OpenRouterError, whatever the legal moves; in both cases no request is
\* sent and the lock is neither taken nor waited for, also while another
\* invocation holds it.
C21_Refused(c, out) ==
    /\ call'[c].out = out
    /\ call'[c].pc = "idle" /\ call'[c].attempt = 0
    /\ or_requests' = or_requests /\ or_lock' = or_lock

C21_Step ==
    \A c \in Callers :
        (call'[c].k = call[c].k + 1 /\ call'[c].fn = "get_move") =>
            /\ ~orClient => C21_Refused(c, "OpenRouterError")
            /\ (orClient /\ call'[c].legal = {}) => C21_Refused(c, "OpenRouterMoveError")

C21_State ==
    \A c \in Callers :
        (call[c].fn = "get_move" /\ (call[c].out = "OpenRouterError" \/ call[c].legal = {}))
            => call[c].attempt = 0 /\ c \notin or_requests /\ or_lock # c

C21_RefusedWithoutRequest == [](C21_State) /\ [][C21_Step]_vars

\* C21 witness: one invocation was refused for its empty legal-move set while
\* another has a request in flight and holds the lock.
C21_Witness ==
    \E c, d \in Callers :
        /\ call[c].fn = "get_move" /\ call[c].legal = {}
        /\ call[c].out = "OpenRouterMoveError" /\ call[c].attempt = 0
        /\ call[d].pc = "post" /\ or_lock = d /\ call[d].k = 1

\* C22: in a live run with both providers started and no scripted move left,
\* whenever the play loop comes to a turn of the model (white) it calls the
\* language-model provider: the pass is then suspended in get_move.
C22_ModelTurnCallsProvider ==
    [][\A p \in Calls :
          (/\ pc[p] \in {"claim", "move_commit"} /\ Moved(p)
           /\ ~dry_run /\ orClient /\ sfEngine # 0 /\ scripted = <<>>
           /\ pc'[p] # "finish_commit"
           /\ turn(loc'[p].n) = WHITE)
              => pc'[p] = "llm"]_vars

\* C23: while the scripted queue is non-empty every move selection removes
\* exactly its head entry.  A legal entry is the move played, without a
\* provider call; an entry that is not legal is dropped for good and the move
\* of that turn comes from the first-legal-move fallback (dry run) or from
\* the provider of the side to move, which is then called.  Nothing else
\* changes the queue.
C23_Select(p) ==
    /\ scripted' = Tail(scripted)
    /\ \/ pc'[p] = "move_commit" /\ loc'[p].pend = <<"scripted", Head(scripted)>>
       \/ dry_run /\ pc'[p] = "move_commit" /\ loc'[p].pend = <<"fallback", 0>>
       \/ ~dry_run /\ turn(loc'[p].n) = WHITE /\ pc'[p] = "llm"
       \/ ~dry_run /\ turn(loc'[p].n) = BLACK /\ pc'[p] = "engine"

C23_ScriptedHeadConsumed ==
    [][/\ \A p \in Calls :
             (/\ pc[p] \in {"claim", "move_commit"} /\ Moved(p)
              /\ scripted # <<>> /\ pc'[p] # "finish_commit")
                 => C23_Select(p)
       /\ scripted' # scripted => scripted' = Tail(scripted)]_vars

\* C24: when the provider call of a turn fails, the play loop stops at that
\* ply: the pass goes to the handler's commit, which marks the schedule
\* FAILED and after which the pass requests no further move; the Game of a
\* FAILED schedule has no result and no completion mark; and no Move row
\* is ever removed or changed.
C24_RowsRemain ==
    \A g \in GameIds :
        /\ Len(games'[g].moves) >= Len(games[g].moves)
        /\ SubSeq(games'[g].moves, 1, Len(games[g].moves)) = games[g].moves

\* The loop has come to a turn of the model without a scripted move, in a live
\* run, where the call of get_move raises.
C24_ModelTurnFails(p) ==
    /\ pc[p] \in {"claim", "move_commit"} /\ Moved(p)
    /\ ~dry_run /\ scripted = <<>>
    /\ loop_continues(loc'[p]) /\ turn(loc'[p].n) = WHITE
    /\ get_move_args # get_move_params

C24_Step ==
    /\ C24_RowsRemain
    /\ \A p \in Calls : C24_ModelTurnFails(p) => pc'[p] = "fail_commit"
    /\ \A p \in Calls :
          (pc[p] = "fail_commit" /\ Moved(p)) =>
              /\ schedules'[cur(loc[p])].status = FAILED
              /\ games' = games
              /\ pc'[p] \in {"done", "get_sched", "loop"}

C24_State ==
    /\ \A p \in Calls : pc[p] = "fail_commit" =>
          /\ games[loc[p].game].result = NoResult
          /\ ~games[loc[p].game].completed
          /\ Len(games[loc[p].game].moves) = loc[p].n
    /\ \A s \in ScheduleIds : (schedules[s].status = FAILED /\ schedules[s].game # 0) =>
          /\ games[schedules[s].game].result = NoResult
          /\ ~games[schedules[s].game].completed

C24_ModelFailureFailsMatch == [](C24_State) /\ [][C24_Step]_vars

\* C24 witness: a live match failed on the model's turn at ply 3; the rows of
\* plies 1 and 2 are there.
C24_Witness ==
    /\ ~dry_run /\ pc[1] = "done"
    /\ schedules[1].status = FAILED /\ schedules[1].game = 1
    /\ Len(games[1].moves) = 2 /\ games[1].result = NoResult

\* C25: when the engine yields no move on its turn the play loop exits: no
\* row is recorded for that turn and the pass goes on to finalize the game
\* with a result (a draw, the position not being decisive), after which the
\* schedule is marked COMPLETED.
C25_NoEngineMoveEndsGame ==
    [][\A p \in Calls :
          (pc[p] = "engine" /\ Moved(p) /\ loc'[p].pend = <<"nomove", 0>>) =>
              /\ games' = games
              /\ pc'[p] = "finish_commit"
              /\ loc'[p].result = DRAW]_vars

\* C26: at every point the Move rows of a game carry the plies 1..n in order,
\* without gap or duplicate, WHITE on odd plies and BLACK on even ones; the
\* move count of a finalized game is n.
C26_RowsInPlyOrder ==
    \A g \in GameIds :
        /\ \A i \in 1..Len(games[g].moves) :
              /\ games[g].moves[i].ply = i
              /\ games[g].moves[i].side = (IF i % 2 = 1 THEN WHITE ELSE BLACK)
        /\ games[g].completed => games[g].moves_count = Len(games[g].moves)

\* C26 witness: a finalized game of three plies.
C26_Witness ==
    \E g \in GameIds :
        /\ games[g].completed /\ games[g].moves_count = 3
        /\ games[g].moves[3].side = WHITE /\ games[g].moves[2].side = BLACK

\* C27: the result is the model's, which plays white: a final position won by
\* white gives WIN, one won by black LOSS, and every other exit of the loop,
\* the cap reached in a position that is not over included, gives DRAW; this
\* result is committed to the Game, the schedule is then marked COMPLETED,
\* and in a live run the rating is adjusted for it, for a DRAW as for the
\* others.
C27_ResultOf(over) ==
    IF over = WhiteWins THEN WIN ELSE IF over = BlackWins THEN LOSS ELSE DRAW

C27_State ==
    \A p \in Calls :
        pc[p] \in {"finish_commit", "complete_commit", "rate_read", "rate_commit"} =>
            /\ loc[p].result = C27_ResultOf(loc[p].over)
            /\ pc[p] # "finish_commit" =>
                  /\ games[loc[p].game].result = loc[p].result
                  /\ games[loc[p].game].completed

C27_Step ==
    \A p \in Calls :
        /\ (pc[p] = "complete_commit" /\ Moved(p)) =>
              /\ schedules'[cur(loc[p])].status = COMPLETED
              /\ ~dry_run => pc'[p] = "rate_read"
        /\ (pc[p] = "rate_read" /\ Moved(p)) => pc'[p] = "rate_commit"
        /\ (pc[p] = "rate_commit" /\ Moved(p)) =>
              /\ adjustments'[cur(loc[p])] = adjustments[cur(loc[p])] + 1
              /\ loc[p].result = DRAW => rating'[1] # rating[1]

C27_ResultFromModelSide == [](C27_State) /\ [][C27_Step]_vars

\* C27 witness: a dry-run game that the cap ended in a position that was not
\* over is a DRAW and its schedule is COMPLETED.
C27_Witness ==
    /\ pc[1] = "done" /\ schedules[1].status = COMPLETED
    /\ games[1].result = DRAW /\ games[1].moves_count = max_half_moves
    /\ horizon > max_half_moves

\* C28: the persisted events of a dispatched match occur in order: the Game row
\* and RUNNING are committed before the first move is requested, each Move row
\* before the next move is requested, the Game's result before COMPLETED, and
\* the rating is adjusted only after COMPLETED is committed.
C28_MoveRequested(p) == pc[p] \in {"llm", "engine", "move_commit"}

C28_State ==
    /\ \A p \in Calls : C28_MoveRequested(p) =>
          /\ loc[p].game \in 1..Len(games)
          /\ schedules[cur(loc[p])].status = RUNNING
          /\ schedules[cur(loc[p])].game = loc[p].game
          /\ Len(games[loc[p].game].moves) = loc[p].n
          /\ games[loc[p].game].result = NoResult
    /\ \A s \in 1..Len(schedules) :
          /\ schedules[s].status = COMPLETED =>
                /\ games[schedules[s].game].completed
                /\ games[schedules[s].game].result # NoResult
          /\ adjustments[s] > 0 => schedules[s].status = COMPLETED

C28_Step ==
    /\ \A p \in Calls :
          (Moved(p) /\ pc[p] \notin {"llm", "engine"} /\ C28_MoveRequested(p)') =>
              /\ pc[p] \in {"claim", "move_commit"}
              /\ Len(games'[loc'[p].game].moves) = loc'[p].n
              /\ pc[p] = "move_commit" =>
                    Len(games'[loc'[p].game].moves) = Len(games[loc[p].game].moves) + 1
    /\ \A s \in 1..Len(schedules) :
          /\ (schedules[s].status # COMPLETED /\ schedules'[s].status = COMPLETED) =>
                /\ games[schedules[s].game].result # NoResult
                /\ games' = games
          /\ adjustments'[s] # adjustments[s] =>
                /\ schedules[s].status = COMPLETED
                /\ schedules' = schedules

C28_CommitsInOrder == [](C28_State) /\ [][C28_Step]_vars

C28_Witness ==
    /\ ~dry_run /\ pc[1] = "done"
    /\ schedules[1].status = COMPLETED /\ adjustments[1] = 1
    /\ Len(games[1].moves) = MaxGameLen /\ games[1].result # NoResult

\* C29: while the scheduler is started and not stopped, every PENDING schedule
\* eventually leaves PENDING, given that the poll task is scheduled fairly and
\* each game ends; also after matches that ended FAILED.
C29_Waiting(s) == s \in ScheduleIds /\ schedules[s].status = PENDING

C29_PendingDispatched ==
    \A s \in 1..MaxSchedules :
        [](( running /\ C29_Waiting(s)) => <>(~running \/ ~C29_Waiting(s)))

C29_Witness ==
    /\ running /\ Len(schedules) = MaxSchedules
    /\ schedules[1].status = FAILED
    /\ \E p \in Calls :
          /\ kind[p] = "task" /\ pc[p] \in {"move_commit", "finish_commit", "complete_commit"}
          /\ cur(loc[p]) = MaxSchedules
          /\ schedules[MaxSchedules].status = RUNNING
          /\ \A q \in Calls \ {p} : pc[q] \notin {"engine", "move_commit", "finish_commit",
                                                  "complete_commit", "fail_commit"}

\* C30: every schedule that is marked RUNNING is eventually marked COMPLETED
\* or FAILED, also when stop() cancels the poll task during that schedule's
\* game and when the scheduler is started again afterwards.
C30_Running(s) == s \in ScheduleIds /\ schedules[s].status = RUNNING

C30_Ended(s) == s \in ScheduleIds /\ schedules[s].status \in {COMPLETED, FAILED}

C30_RunningEnds ==
    \A s \in 1..MaxSchedules : [](C30_Running(s) => <>C30_Ended(s))

\* C31: in every reachable state a PENDING schedule has no linked Game, a
\* RUNNING or COMPLETED schedule is linked to one Game row, and the Game linked
\* to a COMPLETED schedule has a result in {WIN, LOSS, DRAW} and a completion
\* time.
C31_Linked(s) == schedules[s].game \in GameIds

C31_ScheduleGameInvariant ==
    \A s \in ScheduleIds :
        /\ schedules[s].status = PENDING => schedules[s].game = 0
        /\ schedules[s].status \in {RUNNING, COMPLETED} => C31_Linked(s)
        /\ schedules[s].status = COMPLETED =>
              /\ C31_Linked(s)
              /\ games[schedules[s].game].result \in {WIN, LOSS, DRAW}
              /\ games[schedules[s].game].completed

\* C32: when two matches of the same model have completed in overlapping
\* passes of a live run and each has been rated once, the model's rating is
\* what the two adjustments give when applied one after the other.
C32_Start == DEFAULT_RATING * RatingUnit

C32_After(r, s) ==
    adjust_rating(r, games[CHOOSE g \in GamesOf(s) : TRUE].result, STOCKFISH_RATING * RatingUnit)

C32_RatedOnce(s) ==
    /\ schedules[s].status = COMPLETED
    /\ Cardinality(GamesOf(s)) = 1
    /\ adjustments[s] = 1

C32_NoLostUpdate ==
    \A s, t \in ScheduleIds :
        ( /\ s # t
          /\ ~dry_run
          /\ schedules[s].model = schedules[t].model
          /\ C32_RatedOnce(s) /\ C32_RatedOnce(t)
          /\ \A u \in ScheduleIds \ {s, t} : adjustments[u] = 0 )
        => rating[schedules[s].model] \in
              {C32_After(C32_After(C32_Start, s), t), C32_After(C32_After(C32_Start, t), s)}

\* C33: the scripted queue belongs to the orchestrator: a step takes at most
\* its head and nothing is put back, so an entry is played at most once over
\* all games, and a later game sees only what earlier games left.
C33_Played == {<<g, i>> \in GameIds \X (1..MaxGameLen) :
                  i <= Len(games[g].moves) /\ games[g].moves[i].san[1] = "scripted"}

C33_Entry(x) == games[x[1]].moves[x[2]].san[2]

C33_State ==
    /\ \A x, y \in C33_Played : C33_Entry(x) = C33_Entry(y) => x = y
    /\ \A x \in C33_Played : \A k \in 1..Len(scripted) : scripted[k] > C33_Entry(x)

C33_Step == scripted' = scripted \/ (scripted # <<>> /\ scripted' = Tail(scripted))

C33_QueueSharedByGames == [](C33_State) /\ [][C33_Step]_vars

C33_Witness ==
    /\ Len(games) = 2
    /\ \E x, y \in C33_Played : x[1] = 1 /\ y[1] = 2 /\ C33_Entry(y) = C33_Entry(x) + 1
    /\ scripted = <<>>

\* C34: whenever a get_move invocation ends, by a move, by its attempts being
\* used up or by a transport error, the provider lock is released: the lock is
\* held only by an invocation with a request pending, and a get_move waiting
\* for the lock eventually takes it.
C34_State ==
    or_lock # 0 => /\ or_lock \in Callers
                   /\ call[or_lock].fn = "get_move"
                   /\ call[or_lock].pc = "post"

C34_Step ==
    \A c \in Callers :
        (call[c].pc = "post" /\ call'[c].pc # "post") =>
            /\ or_lock = c
            /\ or_lock' = 0

C34_Waits(c) == call[c].pc = "or_wait"

C34_LockAlwaysReleased ==
    /\ [](C34_State)
    /\ [][C34_Step]_vars
    /\ \A c \in Callers : C34_Waits(c) ~> (call[c].pc = "post" \/ call[c].out = "CancelledError")

C34_Witness ==
    /\ call[1].pc = "idle" /\ call[1].fn = "get_move"
    /\ call[1].out \in {"HTTPError", "OpenRouterMoveError"} /\ call[1].attempt >= 1
    /\ or_lock = 2 /\ call[2].pc = "post"

\* C35: overlapping start() calls of the engine provider launch at most one
\* engine subprocess, and when a stop() has quit the engine no subprocess is
\* left but those of start() calls still in progress.
C35_Starting == {p \in Calls : pc[p] = "sf_start"}

C35_OneEngineSubprocess ==
    /\ [](Cardinality(sfLive) <= 1)
    /\ [][\A p \in Calls : (pc[p] = "sf_quit" /\ pc'[p] # "sf_quit") =>
             sfLive' \subseteq C35_Starting']_vars

\* C36: a call of _ensure_schedules leaves the existing schedules as they are
\* and adds PENDING schedules only: one for each selected active model without
\* a PENDING schedule, none for another model, never two for a model; a call
\* that follows a call with no dispatch in between adds nothing.
C36_Created == (Len(schedules) + 1)..Len(schedules')

C36_Step ==
    ncalls' # ncalls =>
        /\ Len(schedules') >= Len(schedules)
        /\ \A s \in 1..Len(schedules) : schedules'[s] = schedules[s]
        /\ \A s \in C36_Created :
              /\ schedules'[s].status = PENDING /\ schedules'[s].game = 0
              /\ schedules'[s].model \in ret.active
              /\ (arg.given /\ converted(arg.model_ids) # {})
                    => schedules'[s].model \in converted(arg.model_ids)
              /\ ~\E t \in 1..Len(schedules) :
                    schedules[t].model = schedules'[s].model /\ schedules[t].status = PENDING
              /\ \A t \in C36_Created : schedules'[t].model = schedules'[s].model => t = s
        /\ \A m \in ensure_models(ret.active, arg) :
              \E s \in 1..Len(schedules') :
                  schedules'[s].model = m /\ schedules'[s].status = PENDING
        /\ ret.streak > 0 => schedules' = schedules

C36_EnsureSchedules == [][C36_Step]_vars

C36_Witness ==
    /\ ret.streak = 2 /\ Len(ret.made) >= 2
    /\ ret.made[Len(ret.made) - 1] = Cardinality(Models)
    /\ ret.made[Len(ret.made)] = 0
    /\ \E s \in 1..Len(schedules) : schedules[s].status # PENDING

====
